---- MODULE Spec2Model ----
(***************************************************************************)
(* The dictation engine of WhOSSper: DictationController                   *)
(* (whossper/core/dictation_controller.py) driving AudioRecorder           *)
(* (whossper/audio/recorder.py) and one background processing thread per   *)
(* completed recording.                                                    *)
(*                                                                         *)
(* Threads: the API caller (the key-event thread), the audio device        *)
(* callback, and the processing threads spawned by stop_recording.  Each   *)
(* action is one atomic step of one thread; a method that reads the state, *)
(* takes the lock or runs a callback is split at those points.             *)
(*                                                                         *)
(* Left out: failures of the file system (wave.open, os.unlink) and of     *)
(* threading.Thread.start, and the lazy construction of the components.    *)
(***************************************************************************)
EXTENDS Integers, Sequences, FiniteSets, TLC

\* ------------------------------------------------------------- bounds
MaxSessions == 2          \* recordings started
MaxFrames == 2            \* frames the device callback delivers per recording

\* audio configuration (config.audio): duration = frames * chunk / rate
ChunkSize == 1
SampleRate == 2
MinDurationNum == 1       \* min_recording_duration = Num / Den seconds
MinDurationDen == 1

MaxActivations == 2       \* callbacks of the shortcut, and times its chord is formed
MaxDelivered == 3         \* frames the device delivers per recording of a direct caller

\* ------------------------------------------------------------- values
IDLE == "idle"
RECORDING == "recording"
TRANSCRIBING == "transcribing"
ENHANCING == "enhancing"
INSERTING == "inserting"
ERROR == "error"
DictationState == {IDLE, RECORDING, TRANSCRIBING, ENHANCING, INSERTING, ERROR}

\* ShortcutMode
TOGGLE == "toggle"
HOLD == "hold"

None == "none"
Free == -1            \* the lock has no holder
Caller == 0
\* Thread slots for processing threads.  Two threads alive at once are
\* modelled; a slot is free again when its thread has ended.
Workers == {1, 2}
\* threads that call AudioRecorder.start_recording at the same time
Starters == {1, 2}
Threads == {Caller} \cup Workers

\* what whisper may hand back before transcribe_to_text strips it
RawResults == {"", " ", "um hello"}
InsertOutcomes == {"ok", "false", "raise"}

VARIABLES
    state,          \* DictationController._state
    observed,       \* last state passed to on_state_change
    lock,           \* holder of DictationController._lock, or Free
    pc,             \* per thread: where it is
    cbret,          \* per thread: where _set_state returns to after the callback
    recording,      \* AudioRecorder._is_recording
    frames,         \* AudioRecorder._frames (each frame tagged with its session)
    session,        \* number of recordings started so far
    stopTrue,       \* number of stop_recording calls that returned True
    spawned,        \* number of processing threads started
    enhancerOn,     \* config.enhancement.enabled with a resolvable key
    wk,             \* per processing thread: its locals and what it did
    files,          \* temporary audio files that exist (named by their thread)
    adapterCallers, \* threads that have called Transcriber/Enhancer/Inserter
    quiet,          \* an accepted cancel was made and no start_recording since
    held,           \* physical keys that are down (the keyboard itself)
    pressedKeys,    \* KeyboardListener._pressed_keys
    mode,           \* the registered shortcut's mode
    active,         \* the registered shortcut's "active" flag
    toggleState,    \* KeyboardListener._toggle_states of the shortcut
    activations,    \* calls of the shortcut's callback
    releases,       \* calls of the shortcut's on_release
    rises,          \* times the chord went from not fully held to fully held
    running,        \* KeyboardListener._running
    klock,          \* holder of KeyboardListener._lock, or Free
    lastEvent,      \* the key event handled last: <<"press" or "release", key>>
    active2,        \* the second shortcut's "active" flag
    activations2,   \* calls of the second shortcut's callback
    releases2,      \* calls of the second shortcut's on_release
    raised,         \* shortcuts whose callback raised in the last key event
    bpc,            \* where a direct caller of the AudioRecorder is
    bret,           \* what the AudioRecorder method called last returned
    stream,         \* AudioRecorder._stream is open and delivers callbacks
    rec,            \* frames in the file written by the last stop_recording
    delivered,      \* frames the device delivered while _is_recording was
                    \* set, since the last start_recording that succeeded
    cpc,            \* per concurrent caller of start_recording: where it is
    cret,           \* per concurrent caller: what its start_recording returned
    opened,         \* device streams opened by the concurrent callers
    shortcuts,      \* KeyboardListener._shortcuts under register/unregister:
                    \* chord -> its registration
    toggleStates    \* KeyboardListener._toggle_states: chord -> bool

listenerVars == <<held, pressedKeys, mode, active, toggleState, activations,
                  releases, rises, running, klock, lastEvent, active2,
                  activations2, releases2, raised>>
\* what no step of the engine changes
bufVars == <<bpc, bret, stream, rec, delivered>>
concVars == <<cpc, cret, opened>>
regVars == <<shortcuts, toggleStates>>
fixedVars == <<enhancerOn, listenerVars, bufVars, concVars, regVars>>
engineVars == <<state, observed, lock, pc, cbret, recording, frames, session,
                stopTrue, spawned, wk, files, adapterCallers, quiet>>

vars == <<engineVars, fixedVars>>

recorderVars == <<recording, frames, session>>
counters == <<stopTrue, spawned>>

\* ------------------------------------------------------------- helpers
WorkerInit ==
    [audio |-> 0, text |-> None, txOut |-> None, enhOut |-> None,
     insOut |-> None, inserted |-> <<>>, notified |-> <<>>, errors |-> 0,
     enhCalls |-> 0, sets |-> <<>>, discarded |-> FALSE]

\* str.strip() of the transcriber's text
Strip(raw) == IF raw \in {"", " "} THEN "" ELSE raw

\* the enhancer's rewrite of a text
Enhance(text) == "hello"

\* variant: a duration equal to the minimum is refused as well
TooShort_Inclusive(n) == n * ChunkSize * MinDurationDen <= MinDurationNum * SampleRate

\* recorder.stop_recording: duration < min_duration
TooShort(n) == n * ChunkSize * MinDurationDen < MinDurationNum * SampleRate

Alive(w) == pc[w] # "none"

Goto(t, loc) == pc' = [pc EXCEPT ![t] = loc]

\* an accepted cancel_recording discards session s: the processing threads
\* that hold the audio of that session are marked
Discard(s) ==
    [w \in Workers |->
        IF Alive(w) /\ wk[w].audio = s
        THEN [wk[w] EXCEPT !.discarded = TRUE]
        ELSE wk[w]]

\* ------------------------------------------------------------- _set_state
\* with self._lock: if the state differs, assign it and run on_state_change
\* (still under the lock); the callback's end is CallbackReturn.
\* variant: the callback is invoked on every call, also when the state does
\* not change
SetState_Always(t, new, next) ==
    /\ lock = Free
    /\ wk' = IF t \in Workers
             THEN [wk EXCEPT ![t].sets = Append(@, new)]
             ELSE wk
    /\ state' = new
    /\ observed' = new
    /\ lock' = t
    /\ Goto(t, "callback")
    /\ cbret' = [cbret EXCEPT ![t] = next]

SetState(t, new, next) ==
    /\ lock = Free
    /\ wk' = IF t \in Workers
             THEN [wk EXCEPT ![t].sets = Append(@, new)]
             ELSE wk
    /\ IF state # new
       THEN /\ state' = new
            /\ observed' = new
            /\ lock' = t
            /\ Goto(t, "callback")
            /\ cbret' = [cbret EXCEPT ![t] = next]
       ELSE /\ Goto(t, next)
            /\ UNCHANGED <<state, observed, lock, cbret>>

\* on_state_change raises: control is in the except clause, still under the
\* lock
CallbackRaise(t) ==
    /\ pc[t] = "callback"
    /\ lock = t
    /\ Goto(t, "cb_except")
    /\ UNCHANGED <<state, observed, lock, cbret, recorderVars, counters,
                   fixedVars, quiet, wk, files, adapterCallers>>

\* variant: the exception leaves _set_state and unwinds the calling method
CallbackExcept_Propagates(t) ==
    /\ pc[t] = "cb_except"
    /\ lock = t
    /\ lock' = Free
    /\ Goto(t, "unwound")
    /\ UNCHANGED <<state, observed, cbret, recorderVars, counters,
                   fixedVars, quiet, wk, files, adapterCallers>>

\* except Exception: the error is logged; the with block releases the lock
\* and _set_state returns
CallbackExcept(t) ==
    /\ pc[t] = "cb_except"
    /\ lock = t
    /\ lock' = Free
    /\ Goto(t, cbret[t])
    /\ UNCHANGED <<state, observed, cbret, recorderVars, counters,
                   fixedVars, quiet, wk, files, adapterCallers>>

\* on_state_change returns; the with block then releases the lock.
CallbackReturn(t) ==
    /\ pc[t] = "callback"
    /\ lock = t
    /\ lock' = Free
    /\ Goto(t, cbret[t])
    /\ UNCHANGED <<state, observed, cbret, recorderVars, counters,
                   fixedVars, quiet, wk, files, adapterCallers>>

\* ------------------------------------------------------------- Init
\* KeyboardListener.__init__ and register_shortcut: not running, nothing
\* pressed, the shortcuts inactive, the toggle state False
ListenerInit ==
    /\ held = {}
    /\ pressedKeys = {}
    /\ active = FALSE
    /\ toggleState = FALSE
    /\ activations = 0
    /\ releases = 0
    /\ rises = 0
    /\ running = FALSE
    /\ klock = Free
    /\ lastEvent = <<None, None>>
    /\ active2 = FALSE
    /\ activations2 = 0
    /\ releases2 = 0
    /\ raised = {}

EngineInit ==
    /\ state = IDLE
    /\ observed = IDLE
    /\ lock = Free
    /\ pc = [t \in Threads |-> IF t = Caller THEN "ready" ELSE "none"]
    /\ cbret = [t \in Threads |-> None]
    /\ recording = FALSE
    /\ frames = <<>>
    /\ session = 0
    /\ stopTrue = 0
    /\ spawned = 0
    /\ wk = [w \in Workers |-> WorkerInit]
    /\ files = {}
    /\ adapterCallers = {}
    /\ quiet = FALSE

\* AudioRecorder.__init__ seen by a direct caller: no stream, no file
\* KeyboardListener.__init__: self._shortcuts = {}, self._toggle_states = {}
RegInit ==
    /\ shortcuts = [c \in {} |-> None]
    /\ toggleStates = [c \in {} |-> FALSE]

BufInit ==
    /\ bpc = "ready"
    /\ bret = None
    /\ stream = FALSE
    /\ rec = <<>>
    /\ delivered = <<>>
    /\ cpc = [c \in Starters |-> "ready"]
    /\ cret = [c \in Starters |-> None]
    /\ opened = 0

Init ==
    /\ EngineInit
    /\ enhancerOn \in BOOLEAN
    /\ ListenerInit
    /\ RegInit
    /\ BufInit
    /\ mode = TOGGLE

\* ------------------------------------------------------------- _handle_error
\* _set_state(ERROR); on_error(message); time.sleep(0.5); _set_state(IDLE).
\* Runs on whichever thread met the error.
AfterError(t) == IF t = Caller THEN "start_ret_false" ELSE "w_unlink"

HandleErrorSet(t) ==
    /\ pc[t] = "herr_set"
    /\ SetState(t, ERROR, "herr_onerror")
    /\ UNCHANGED <<recorderVars, counters, fixedVars, quiet, files, adapterCallers>>

HandleErrorNotify(t) ==
    /\ pc[t] = "herr_onerror"
    /\ wk' = IF t \in Workers THEN [wk EXCEPT ![t].errors = @ + 1] ELSE wk
    /\ Goto(t, "herr_sleep")
    /\ UNCHANGED <<state, observed, lock, cbret, recorderVars, counters,
                   fixedVars, quiet, files, adapterCallers>>

\* the sleep ends and _set_state(IDLE) runs
HandleErrorIdle(t) ==
    /\ pc[t] = "herr_sleep"
    /\ SetState(t, IDLE, AfterError(t))
    /\ UNCHANGED <<recorderVars, counters, fixedVars, quiet, files, adapterCallers>>

\* ------------------------------------------------------------- API calls
\* The caller enters start_recording, stop_recording or cancel_recording.
Call(op) ==
    /\ pc[Caller] = "ready"
    /\ op = "start" => session < MaxSessions
    /\ op = "stop" => \E w \in Workers : ~Alive(w)
    /\ Goto(Caller, op \o "_check")
    /\ quiet' = IF op = "start" THEN FALSE ELSE quiet
    /\ UNCHANGED <<state, observed, lock, cbret, recorderVars, counters,
                   fixedVars, wk, files, adapterCallers>>

\* variant: a start is also let through while the engine shows an error
StartAllowed_AlsoInError == state \in {IDLE, ERROR}

StartAllowed == state = IDLE

\* start_recording up to the recorder's answer: the state test, then
\* AudioRecorder.start_recording (already recording -> False; the frame list
\* is reset before the stream is opened; a failed open -> False).
StartCheck ==
    /\ pc[Caller] = "start_check"
    /\ IF ~StartAllowed
       THEN /\ Goto(Caller, "start_ret_false")
            /\ UNCHANGED recorderVars
       ELSE IF recording
       THEN /\ Goto(Caller, "herr_set")
            /\ UNCHANGED recorderVars
       ELSE \E deviceOk \in BOOLEAN :
            /\ frames' = <<>>
            /\ recording' = deviceOk
            /\ session' = IF deviceOk THEN session + 1 ELSE session
            /\ Goto(Caller, IF deviceOk THEN "start_set" ELSE "herr_set")
    /\ UNCHANGED <<state, observed, lock, cbret, counters, fixedVars, quiet, wk,
                   files, adapterCallers>>

StartSet ==
    /\ pc[Caller] = "start_set"
    /\ SetState(Caller, RECORDING, "start_ret_true")
    /\ UNCHANGED <<recorderVars, counters, fixedVars, quiet, files, adapterCallers>>

StopAllowed == state = RECORDING

\* AudioRecorder.stop_recording hands back a file: it was recording, the
\* duration reaches the minimum and there is at least one frame.
StopYieldsFile ==
    /\ recording
    /\ ~TooShort(Len(frames))
    /\ frames # <<>>

\* threading.Thread(target=thread_wrapper).start() on the saved file
\* variant: the thread is started but the call reports False
Spawn_ReportsFalse(w) ==
    /\ ~Alive(w)
    /\ \A v \in Workers : v < w => Alive(v)
    /\ pc' = [pc EXCEPT ![w] = "w_start", ![Caller] = "stop_ret_false"]
    /\ wk' = [wk EXCEPT ![w].audio = session]
    /\ files' = files \cup {w}
    /\ spawned' = spawned + 1

Spawn(w) ==
    /\ ~Alive(w)
    /\ \A v \in Workers : v < w => Alive(v)
    /\ pc' = [pc EXCEPT ![w] = "w_start", ![Caller] = "stop_ret_true"]
    /\ wk' = [wk EXCEPT ![w].audio = session]
    /\ files' = files \cup {w}
    /\ spawned' = spawned + 1

\* stop_recording: the state test, AudioRecorder.stop_recording (its finally
\* clears _is_recording and keeps the frames), and the thread start.
StopCheck ==
    /\ pc[Caller] = "stop_check"
    /\ IF ~StopAllowed
       THEN /\ Goto(Caller, "stop_ret_false")
            /\ UNCHANGED <<recording, wk, files, spawned>>
       ELSE IF StopYieldsFile
       THEN /\ \E w \in Workers : Spawn(w)
            /\ recording' = FALSE
       ELSE /\ Goto(Caller, "stop_idle")
            /\ recording' = FALSE
            /\ UNCHANGED <<wk, files, spawned>>
    /\ UNCHANGED <<state, observed, lock, cbret, frames, session, stopTrue,
                   fixedVars, quiet, adapterCallers>>

\* the too-short (ValueError) and no-file branches: _set_state(IDLE), False
StopIdle ==
    /\ pc[Caller] = "stop_idle"
    /\ SetState(Caller, IDLE, "stop_ret_false")
    /\ UNCHANGED <<recorderVars, counters, fixedVars, quiet, files, adapterCallers>>

\* cancel_recording: only in RECORDING; AudioRecorder.cancel_recording drops
\* the frames and clears _is_recording.
CancelCheck ==
    /\ pc[Caller] = "cancel_check"
    /\ IF state = RECORDING
       THEN /\ recording' = FALSE
            /\ frames' = <<>>
            /\ wk' = Discard(session)
            /\ quiet' = TRUE
            /\ Goto(Caller, "cancel_set")
       ELSE /\ Goto(Caller, "cancel_ret")
            /\ UNCHANGED <<recording, frames, wk, quiet>>
    /\ UNCHANGED <<state, observed, lock, cbret, session, counters, fixedVars,
                   files, adapterCallers>>

CancelSet ==
    /\ pc[Caller] = "cancel_set"
    /\ SetState(Caller, IDLE, "cancel_ret")
    /\ UNCHANGED <<recorderVars, counters, fixedVars, quiet, files, adapterCallers>>

\* the call returns to the caller; the location names the value returned
ReturnLocs ==
    {"start_ret_true", "start_ret_false", "stop_ret_true", "stop_ret_false",
     "cancel_ret"}

ApiReturn ==
    /\ pc[Caller] \in ReturnLocs
    /\ Goto(Caller, "ready")
    /\ stopTrue' = IF pc[Caller] = "stop_ret_true" THEN stopTrue + 1 ELSE stopTrue
    /\ UNCHANGED <<state, observed, lock, cbret, recorderVars, spawned,
                   fixedVars, quiet, wk, files, adapterCallers>>

\* ------------------------------------------------------------- audio thread
\* AudioRecorder._audio_callback: append while recording, else drop.
AudioCallback ==
    /\ recording
    /\ Len(frames) < MaxFrames
    /\ frames' = Append(frames, session)
    /\ UNCHANGED <<state, observed, lock, pc, cbret, recording, session,
                   counters, fixedVars, quiet, wk, files, adapterCallers>>

\* ------------------------------------------------------------- _process_audio
\* Each action is one step of processing thread w.
workerFrame == <<recorderVars, counters, fixedVars, quiet, files>>

WStart(w) ==
    /\ pc[w] = "w_start"
    /\ SetState(w, TRANSCRIBING, "w_transcribe")
    /\ UNCHANGED <<workerFrame, adapterCallers>>

\* where the thread goes with the text it got
AfterTranscribe(text) ==
    IF text = "" THEN "w_empty_idle"
    ELSE IF enhancerOn THEN "w_enh_set"
    ELSE "w_ins_set"

\* transcriber.transcribe_to_text(audio_file): a stripped text, or it raises
WTranscribe(w) ==
    /\ pc[w] = "w_transcribe"
    /\ adapterCallers' = adapterCallers \cup {w}
    /\ \/ \E raw \in RawResults :
            /\ wk' = [wk EXCEPT ![w].text = Strip(raw),
                                ![w].txOut = IF Strip(raw) = "" THEN "empty" ELSE "text"]
            /\ Goto(w, AfterTranscribe(Strip(raw)))
       \/ /\ wk' = [wk EXCEPT ![w].txOut = "fail"]
          /\ Goto(w, "herr_set")
    /\ UNCHANGED <<state, observed, lock, cbret, workerFrame>>

\* if not text: _set_state(IDLE); return
WEmptyIdle(w) ==
    /\ pc[w] = "w_empty_idle"
    /\ SetState(w, IDLE, "w_unlink")
    /\ UNCHANGED <<workerFrame, adapterCallers>>

WEnhanceSet(w) ==
    /\ pc[w] = "w_enh_set"
    /\ SetState(w, ENHANCING, "w_enhance")
    /\ UNCHANGED <<workerFrame, adapterCallers>>

\* text = enhancer.enhance(text); an exception keeps the raw text
WEnhance(w) ==
    /\ pc[w] = "w_enhance"
    /\ adapterCallers' = adapterCallers \cup {w}
    /\ \E ok \in BOOLEAN :
          wk' = [wk EXCEPT ![w].text = IF ok THEN Enhance(@) ELSE @,
                           ![w].enhOut = IF ok THEN "ok" ELSE "raise",
                           ![w].enhCalls = @ + 1]
    /\ Goto(w, "w_ins_set")
    /\ UNCHANGED <<state, observed, lock, cbret, workerFrame>>

WInsertSet(w) ==
    /\ pc[w] = "w_ins_set"
    /\ SetState(w, INSERTING, "w_insert")
    /\ UNCHANGED <<workerFrame, adapterCallers>>

\* after inserter.insert_text_with_fallback(text): its bool is dropped, an
\* exception is logged and re-raised into the outer except
AfterInsert(out) == IF out = "raise" THEN "herr_set" ELSE "w_notify"

WInsert(w) ==
    /\ pc[w] = "w_insert"
    /\ adapterCallers' = adapterCallers \cup {w}
    /\ \E out \in InsertOutcomes :
          /\ wk' = [wk EXCEPT ![w].inserted = Append(@, wk[w].text),
                              ![w].insOut = out]
          /\ Goto(w, AfterInsert(out))
    /\ UNCHANGED <<state, observed, lock, cbret, workerFrame>>

\* on_transcription(text); an exception it raises is logged
WNotify(w) ==
    /\ pc[w] = "w_notify"
    /\ wk' = [wk EXCEPT ![w].notified = Append(@, wk[w].text)]
    /\ Goto(w, "w_unlink")
    /\ UNCHANGED <<state, observed, lock, cbret, workerFrame, adapterCallers>>

\* variant: the finally block leaves the audio file behind
WUnlink_KeepsFile(w) ==
    /\ pc[w] = "w_unlink"
    /\ Goto(w, "w_finally")
    /\ UNCHANGED <<state, observed, lock, cbret, wk, workerFrame, adapterCallers>>

\* finally: os.unlink(audio_file)
WUnlink(w) ==
    /\ pc[w] = "w_unlink"
    /\ files' = files \ {w}
    /\ Goto(w, "w_finally")
    /\ UNCHANGED <<state, observed, lock, cbret, recorderVars, counters,
                   fixedVars, quiet, wk, adapterCallers>>

\* variant: the finally block does not reset the state
WFinally_NoReset(w) ==
    /\ pc[w] = "w_finally"
    /\ Goto(w, "w_exit")
    /\ UNCHANGED <<state, observed, lock, cbret, wk, workerFrame, adapterCallers>>

\* finally: _set_state(IDLE)
WFinally(w) ==
    /\ pc[w] = "w_finally"
    /\ SetState(w, IDLE, "w_exit")
    /\ UNCHANGED <<workerFrame, adapterCallers>>

\* _process_audio and thread_wrapper return: the thread ends, its locals go
WExit(w) ==
    /\ pc[w] = "w_exit"
    /\ Goto(w, "none")
    /\ wk' = [wk EXCEPT ![w] = WorkerInit]
    /\ UNCHANGED <<state, observed, lock, cbret, workerFrame, adapterCallers>>

\* ------------------------------------------------------------- next-state
CallerStep ==
    \/ StartCheck \/ StartSet
    \/ StopCheck \/ StopIdle
    \/ CancelCheck \/ CancelSet
    \/ ApiReturn

WorkerStep(w) ==
    \/ WStart(w) \/ WTranscribe(w) \/ WEmptyIdle(w)
    \/ WEnhanceSet(w) \/ WEnhance(w)
    \/ WInsertSet(w) \/ WInsert(w) \/ WNotify(w)
    \/ WUnlink(w) \/ WFinally(w) \/ WExit(w)

ErrorStep(t) ==
    \/ HandleErrorSet(t) \/ HandleErrorNotify(t) \/ HandleErrorIdle(t)

\* a step of thread t that is not the start of a new API call
Proceed(t) ==
    \/ t = Caller /\ CallerStep
    \/ t \in Workers /\ WorkerStep(t)
    \/ ErrorStep(t)
    \/ CallbackReturn(t)
    \/ CallbackRaise(t)
    \/ CallbackExcept(t)

Next ==
    \/ \E op \in {"start", "stop", "cancel"} : Call(op)
    \/ \E t \in Threads : Proceed(t)
    \/ AudioCallback

Spec == Init /\ [][Next]_vars

\* threads are scheduled fairly and every call in progress runs on; starting
\* a new API call is never forced
FairSpec == Spec /\ \A t \in Threads : SF_vars(Proceed(t))

\* ------------------------------------------------------------- re-entrant callbacks
\* on_state_change, running under the lock on thread t, calls back into the
\* controller.  A call the state test rejects changes nothing and is not
\* shown.  An accepted call reaches _set_state, whose `with self._lock`
\* waits for the threading.Lock the same thread already holds.

\* the callback calls start_recording(): state test, recorder start, then
\* _set_state(RECORDING) or _handle_error -> _set_state(ERROR)
CallbackCallsStart(t) ==
    /\ pc[t] = "callback"
    /\ state = IDLE
    /\ IF recording
       THEN UNCHANGED recorderVars
       ELSE \E deviceOk \in BOOLEAN :
            /\ deviceOk => session < MaxSessions
            /\ frames' = <<>>
            /\ recording' = deviceOk
            /\ session' = IF deviceOk THEN session + 1 ELSE session
    /\ Goto(t, "deadlocked")
    /\ quiet' = FALSE
    /\ UNCHANGED <<state, observed, lock, cbret, counters, fixedVars,
                   wk, files, adapterCallers>>

\* the callback calls cancel_recording(): state test, recorder cancel, then
\* _set_state(IDLE)
CallbackCallsCancel(t) ==
    /\ pc[t] = "callback"
    /\ state = RECORDING
    /\ recording' = FALSE
    /\ frames' = <<>>
    /\ Goto(t, "deadlocked")
    /\ wk' = Discard(session)
    /\ quiet' = TRUE
    /\ UNCHANGED <<state, observed, lock, cbret, session, counters, fixedVars,
                   files, adapterCallers>>

NextR ==
    \/ Next
    \/ \E t \in Threads : CallbackCallsStart(t)
    \/ \E t \in Threads : CallbackCallsCancel(t)

SpecR == Init /\ [][NextR]_vars

\* ------------------------------------------------------------- _toggle_dictation
\* The callback of the toggle shortcut: start_recording when the state reads
\* IDLE, stop_recording when it reads RECORDING, nothing otherwise.  The
\* state is read without the lock and read again inside the method called.
ToggleDictation ==
    \/ state = IDLE /\ Call("start")
    \/ state = RECORDING /\ Call("stop")

\* the engine driven by the toggle shortcut alone
NextToggle ==
    \/ ToggleDictation
    \/ \E t \in Threads : Proceed(t)
    \/ AudioCallback

SpecToggle == Init /\ [][NextToggle]_vars

\* ------------------------------------------------------------- core_new.py
\* whossper/core_new.py holds a second DictationController with the same
\* start_recording, cancel_recording, _set_state, _process_audio and
\* _handle_error, over a recorder whose stop() drains the frame list before
\* the controller tests the duration.

\* core_new stop_recording: the state test; AudioRecorder.stop() (not
\* recording -> None; else _recording = False, the frames are concatenated
\* and _frames = []); then "audio is None or duration < min_duration" ->
\* _set_state(IDLE), False; else the thread is started.
NewStopCheck ==
    /\ pc[Caller] = "stop_check"
    /\ IF ~StopAllowed
       THEN /\ Goto(Caller, "stop_ret_false")
            /\ UNCHANGED <<recording, frames, wk, files, spawned>>
       ELSE IF ~recording
       THEN /\ Goto(Caller, "stop_idle")
            /\ UNCHANGED <<recording, frames, wk, files, spawned>>
       ELSE IF frames # <<>> /\ ~TooShort(Len(frames))
       THEN /\ \E w \in Workers : Spawn(w)
            /\ recording' = FALSE
            /\ frames' = <<>>
       ELSE /\ Goto(Caller, "stop_idle")
            /\ recording' = FALSE
            /\ frames' = <<>>
            /\ UNCHANGED <<wk, files, spawned>>
    /\ UNCHANGED <<state, observed, lock, cbret, session, stopTrue,
                   fixedVars, quiet, adapterCallers>>

NewCallerStep ==
    \/ StartCheck \/ StartSet
    \/ NewStopCheck \/ StopIdle
    \/ CancelCheck \/ CancelSet
    \/ ApiReturn

NewProceed(t) ==
    \/ t = Caller /\ NewCallerStep
    \/ t \in Workers /\ WorkerStep(t)
    \/ ErrorStep(t)
    \/ CallbackReturn(t)
    \/ CallbackRaise(t)
    \/ CallbackExcept(t)

NextNew ==
    \/ \E op \in {"start", "stop", "cancel"} : Call(op)
    \/ \E t \in Threads : NewProceed(t)
    \/ AudioCallback

SpecNew == Init /\ [][NextNew]_vars

\* ------------------------------------------------------------- KeyboardListener
\* whossper/input/keyboard_listener.py with two shortcuts registered: first
\* the chord ctrl+shift in the mode chosen, then the chord shift in hold mode
\* with an on_release.  The keyboard reports physical keys; a left or right
\* modifier is also entered under its generic name.
PhysKeys == {"ctrl_l", "ctrl_r", "shift_l", "shift_r", "a"}

\* variant: only the left modifiers are given their generic name
Normalize_LeftOnly(k) ==
    IF k = "ctrl_l" THEN "ctrl"
    ELSE IF k = "shift_l" THEN "shift"
    ELSE k

\* _normalize_key
Normalize(k) ==
    IF k \in {"ctrl_l", "ctrl_r"} THEN "ctrl"
    ELSE IF k \in {"shift_l", "shift_r"} THEN "shift"
    ELSE k

\* parse_shortcut("ctrl+shift")
Chord == {"ctrl", "shift"}

\* parse_shortcut("shift"), the second shortcut
Chord2 == {"shift"}

\* the shortcuts in the order of self._shortcuts.items()
Shortcuts == {1, 2}

\* the thread pynput runs _on_press and _on_release on
KeyThread == 3

\* _is_shortcut_pressed
IsShortcutPressed(keys) == Chord \subseteq keys

\* variant: exact-set matching, no key outside the chord may be down
IsShortcut2Pressed_Exact(keys) ==
    /\ Chord2 \subseteq keys
    /\ \A x \in keys : Normalize(x) \in Chord2

\* _is_shortcut_pressed for the second shortcut
IsShortcut2Pressed(keys) == Chord2 \subseteq keys

\* the physical keys that stand for a key of a chord (Key.ctrl is sent by
\* Key.ctrl_l and Key.ctrl_r, Key.shift by Key.shift_l and Key.shift_r)
Variants(c) ==
    IF c = "ctrl" THEN {"ctrl", "ctrl_l", "ctrl_r"}
    ELSE IF c = "shift" THEN {"shift", "shift_l", "shift_r"}
    ELSE {c}

\* the chord as the keyboard has it: each of its keys is down in some variant
ChordHeld(h) == \A c \in Chord : h \cap Variants(c) # {}

\* what the key handlers leave alone
keysFrame == <<enhancerOn, engineVars, bufVars, concVars, regVars>>

\* variant: a raising callback ends the loop over the shortcuts
LoopGoesOn_Unprotected(callbackRaised) == ~callbackRaised

\* try: callback() except Exception: logger.error(...): the loop over the
\* shortcuts goes on whether the callback returned or raised
LoopGoesOn(callbackRaised) == TRUE

\* KeyboardListener.start(): the pynput listener thread is started
ListenerStart ==
    /\ ~running
    /\ running' = TRUE
    /\ UNCHANGED <<held, pressedKeys, mode, active, toggleState, activations,
                   releases, rises, klock, lastEvent, active2, activations2,
                   releases2, raised, keysFrame>>

\* variant: the callback is called on every key-down that finds the chord
\* pressed, whether or not the shortcut is already active
OnPress_Refires(k) ==
    /\ running
    /\ klock = Free
    /\ activations < MaxActivations
    /\ activations2 < MaxActivations
    /\ rises < MaxActivations
    /\ \E bad \in SUBSET Shortcuts :
        LET keys == pressedKeys \cup {k, Normalize(k)}
            fire1 == IsShortcutPressed(keys)
            fire2 == /\ LoopGoesOn(fire1 /\ 1 \in bad)
                     /\ IsShortcut2Pressed(keys)
        IN  /\ held' = held \cup {k}
            /\ rises' = IF ~ChordHeld(held) /\ ChordHeld(held')
                        THEN rises + 1 ELSE rises
            /\ pressedKeys' = keys
            /\ active' = (active \/ fire1)
            /\ toggleState' = IF fire1 /\ mode = TOGGLE
                              THEN ~toggleState ELSE toggleState
            /\ activations' = IF fire1 THEN activations + 1 ELSE activations
            /\ active2' = (active2 \/ fire2)
            /\ activations2' = IF fire2 THEN activations2 + 1 ELSE activations2
            /\ raised' = {i \in bad : (i = 1 /\ fire1) \/ (i = 2 /\ fire2)}
    /\ lastEvent' = <<"press", k>>
    /\ UNCHANGED <<mode, releases, releases2, running, klock, keysFrame>>

\* _on_press(key): a key-down event (a repeat when the key is down already);
\* bad are the shortcuts whose callback raises when it is called
OnPress(k) ==
    /\ running
    /\ klock = Free
    /\ activations < MaxActivations
    /\ activations2 < MaxActivations
    /\ rises < MaxActivations
    /\ \E bad \in SUBSET Shortcuts :
        LET keys == pressedKeys \cup {k, Normalize(k)}
            fire1 == IsShortcutPressed(keys) /\ ~active
            fire2 == /\ LoopGoesOn(fire1 /\ 1 \in bad)
                     /\ IsShortcut2Pressed(keys)
                     /\ ~active2
        IN  /\ held' = held \cup {k}
            /\ rises' = IF ~ChordHeld(held) /\ ChordHeld(held')
                        THEN rises + 1 ELSE rises
            /\ pressedKeys' = keys
            /\ active' = (active \/ fire1)
            /\ toggleState' = IF fire1 /\ mode = TOGGLE
                              THEN ~toggleState ELSE toggleState
            /\ activations' = IF fire1 THEN activations + 1 ELSE activations
            /\ active2' = (active2 \/ fire2)
            /\ activations2' = IF fire2 THEN activations2 + 1 ELSE activations2
            /\ raised' = {i \in bad : (i = 1 /\ fire1) \/ (i = 2 /\ fire2)}
    /\ lastEvent' = <<"press", k>>
    /\ UNCHANGED <<mode, releases, releases2, running, klock, keysFrame>>

\* _on_release(key): a key-up event; a shortcut in toggle mode is only marked
\* inactive, one in hold mode also has its on_release called
OnRelease(k) ==
    /\ running
    /\ klock = Free
    /\ \E bad \in SUBSET Shortcuts :
        LET keys == pressedKeys \ {k, Normalize(k)}
            drop1 == active /\ ~IsShortcutPressed(keys)
            call1 == drop1 /\ mode = HOLD
            drop2 == /\ LoopGoesOn(call1 /\ 1 \in bad)
                     /\ active2
                     /\ ~IsShortcut2Pressed(keys)
        IN  /\ held' = held \ {k}
            /\ pressedKeys' = keys
            /\ active' = (active /\ ~drop1)
            /\ releases' = IF call1 THEN releases + 1 ELSE releases
            /\ active2' = (active2 /\ ~drop2)
            /\ releases2' = IF drop2 THEN releases2 + 1 ELSE releases2
            /\ raised' = {i \in bad : (i = 1 /\ call1) \/ (i = 2 /\ drop2)}
    /\ lastEvent' = <<"release", k>>
    /\ UNCHANGED <<mode, toggleState, activations, activations2, rises,
                   running, klock, keysFrame>>

NextKeys ==
    \/ ListenerStart
    \/ \E k \in PhysKeys : OnPress(k)
    \/ \E k \in PhysKeys : OnRelease(k)

\* the listener alone, the engine at rest
InitKeys ==
    /\ EngineInit
    /\ enhancerOn = FALSE
    /\ ListenerInit
    /\ RegInit
    /\ BufInit
    /\ mode \in {TOGGLE, HOLD}

SpecKeys == InitKeys /\ [][NextKeys]_vars

\* ------------------------------------------------------------- callbacks that call the listener
\* _on_press calls the callback inside "with self._lock" (lines 187-222), and
\* get_toggle_state, set_toggle_state, register_shortcut and
\* unregister_shortcut take the same threading.Lock, which is not reentrant:
\* a callback of the first shortcut that calls one of them waits for the lock
\* its own thread holds.  The flag, the toggle state and the count have been
\* set before the call; the loop never reaches the second shortcut.
OnPressQuerying(k) ==
    /\ running
    /\ klock = Free
    /\ activations < MaxActivations
    /\ rises < MaxActivations
    /\ LET keys == pressedKeys \cup {k, Normalize(k)}
       IN  /\ IsShortcutPressed(keys) /\ ~active
           /\ pressedKeys' = keys
    /\ held' = held \cup {k}
    /\ rises' = IF ~ChordHeld(held) /\ ChordHeld(held') THEN rises + 1 ELSE rises
    /\ active' = TRUE
    /\ toggleState' = IF mode = TOGGLE THEN ~toggleState ELSE toggleState
    /\ activations' = activations + 1
    /\ klock' = KeyThread
    /\ lastEvent' = <<"press", k>>
    /\ raised' = {}
    /\ UNCHANGED <<mode, releases, running, active2, activations2, releases2,
                   keysFrame>>

NextKeysR ==
    \/ NextKeys
    \/ \E k \in PhysKeys : OnPressQuerying(k)

SpecKeysR == InitKeys /\ [][NextKeysR]_vars

\* ------------------------------------------------------------- stop and re-registration
\* KeyboardListener.stop(): the pynput thread is stopped, _running cleared
\* and _pressed_keys emptied; the shortcuts' "active" flags are not touched.
ListenerStop ==
    /\ running' = FALSE
    /\ pressedKeys' = {}
    /\ UNCHANGED <<held, mode, active, toggleState, activations, releases,
                   rises, klock, lastEvent, active2, activations2, releases2,
                   raised, keysFrame>>

\* register_shortcut("ctrl+shift", callback, m, on_release): under the lock
\* the entry of the chord is replaced by one with "active": False, and for
\* toggle mode the toggle state is set to False.
Register(m) ==
    /\ klock = Free
    /\ mode' = m
    /\ active' = FALSE
    /\ toggleState' = IF m = TOGGLE THEN FALSE ELSE toggleState
    /\ UNCHANGED <<held, pressedKeys, activations, releases, rises, running,
                   klock, lastEvent, active2, activations2, releases2, raised,
                   keysFrame>>

NextKeysLife ==
    \/ NextKeys
    \/ ListenerStop
    \/ \E m \in {TOGGLE, HOLD} : Register(m)

SpecKeysLife == InitKeys /\ [][NextKeysLife]_vars

\* ------------------------------------------------------------- DictationController.stop
\* The service is stopped: if the state reads RECORDING, cancel_recording()
\* (which tests the state again); then KeyboardListener.stop(); then the
\* recorder and the transcriber are released.  The locations ending in
\* "_cancelled" are those of a stop whose cancel_recording was accepted.

\* the listener's variables that stop() leaves alone
listenerRest == <<held, mode, active, toggleState, activations, releases,
                  rises, klock, lastEvent, active2, activations2, releases2,
                  raised>>

\* the caller enters DictationController.stop
ServiceStopCall ==
    /\ pc[Caller] = "ready"
    /\ Goto(Caller, "svc_stop")
    /\ UNCHANGED <<state, observed, lock, cbret, recorderVars, counters,
                   fixedVars, quiet, wk, files, adapterCallers>>

\* if self._state == DictationState.RECORDING: (line 413)
ServiceStopCheck ==
    /\ pc[Caller] = "svc_stop"
    /\ Goto(Caller, IF state = RECORDING THEN "svc_cancel_check"
                    ELSE "svc_listener")
    /\ UNCHANGED <<state, observed, lock, cbret, recorderVars, counters,
                   fixedVars, quiet, wk, files, adapterCallers>>

\* cancel_recording called by stop: the state is tested again
ServiceCancelCheck ==
    /\ pc[Caller] = "svc_cancel_check"
    /\ IF state = RECORDING
       THEN /\ recording' = FALSE
            /\ frames' = <<>>
            /\ wk' = Discard(session)
            /\ quiet' = TRUE
            /\ Goto(Caller, "svc_cancel_set")
       ELSE /\ Goto(Caller, "svc_listener")
            /\ UNCHANGED <<recording, frames, wk, quiet>>
    /\ UNCHANGED <<state, observed, lock, cbret, session, counters, fixedVars,
                   files, adapterCallers>>

ServiceCancelSet ==
    /\ pc[Caller] = "svc_cancel_set"
    /\ SetState(Caller, IDLE, "svc_listener_cancelled")
    /\ UNCHANGED <<recorderVars, counters, fixedVars, quiet, files, adapterCallers>>

\* self._keyboard_listener.stop(), the clean-ups, and the return
ServiceListenerStop ==
    /\ pc[Caller] \in {"svc_listener", "svc_listener_cancelled"}
    /\ Goto(Caller, IF pc[Caller] = "svc_listener" THEN "svc_ret"
                    ELSE "svc_ret_cancelled")
    /\ running' = FALSE
    /\ pressedKeys' = {}
    /\ UNCHANGED <<state, observed, lock, cbret, recorderVars, counters,
                   quiet, wk, files, adapterCallers, enhancerOn, listenerRest,
                   bufVars, concVars, regVars>>

ServiceStopReturn ==
    /\ pc[Caller] \in {"svc_ret", "svc_ret_cancelled"}
    /\ Goto(Caller, "ready")
    /\ UNCHANGED <<state, observed, lock, cbret, recorderVars, counters,
                   fixedVars, quiet, wk, files, adapterCallers>>

\* DictationController.start: the service's caller starts the key listener
ServiceStart ==
    /\ pc[Caller] = "ready"
    /\ ListenerStart

ServiceStopStep ==
    \/ ServiceStopCall \/ ServiceStopCheck
    \/ ServiceCancelCheck \/ ServiceCancelSet
    \/ ServiceListenerStop \/ ServiceStopReturn

\* the engine with its listener started and the service stopped at any time
NextStop ==
    \/ Next
    \/ ServiceStart
    \/ ServiceStopStep

SpecStop == Init /\ [][NextStop]_vars

\* ------------------------------------------------------------- register and unregister
\* register_shortcut, unregister_shortcut and set_toggle_state called in any
\* order on a listener.  A shortcut string is given as its parts, that is
\* shortcut_str.lower().replace(" ", "").split("+").
ShortcutStrs ==
    { <<"ctrl", "shift">>, <<"shift", "control">>, <<"cmd", "d">>,
      <<"f5">>, <<"bogus">> }

\* the names of KEY_MAP used here, and the single characters
KEY_MAP ==
    [n \in {"ctrl", "control", "cmd", "command", "shift", "f5"} |->
        IF n \in {"ctrl", "control"} THEN "ctrl"
        ELSE IF n \in {"cmd", "command"} THEN "cmd"
        ELSE n]

SingleChars == {"d"}

\* parse_shortcut: a part in KEY_MAP gives its key, a single character gives
\* its key code, any other part is dropped with a warning
parse_shortcut(parts) ==
    { IF parts[i] \in DOMAIN KEY_MAP THEN KEY_MAP[parts[i]] ELSE parts[i] :
        i \in { j \in 1..Len(parts) :
                  parts[j] \in DOMAIN KEY_MAP \/ parts[j] \in SingleChars } }

\* d[k] = v on a dict
DictSet(d, k, v) == [c \in DOMAIN d \cup {k} |-> IF c = k THEN v ELSE d[c]]

\* del d[k] on a dict
DictDel(d, k) == [c \in DOMAIN d \ {k} |-> d[c]]

regFrame == <<enhancerOn, engineVars, listenerVars, bufVars, concVars>>

\* register_shortcut(shortcut, callback, mode, on_release)
register_shortcut(str, m) ==
    LET key_combo == parse_shortcut(str) IN
    /\ IF key_combo = {}
       THEN UNCHANGED regVars
       ELSE /\ shortcuts' = DictSet(shortcuts, key_combo,
                   [mode |-> m, shortcut_str |-> str, active |-> FALSE])
            /\ toggleStates' = IF m = TOGGLE
                               THEN DictSet(toggleStates, key_combo, FALSE)
                               ELSE toggleStates
    /\ UNCHANGED regFrame

\* unregister_shortcut(shortcut)
unregister_shortcut(str) ==
    LET key_combo == parse_shortcut(str) IN
    /\ IF key_combo \in DOMAIN shortcuts
       THEN /\ shortcuts' = DictDel(shortcuts, key_combo)
            /\ toggleStates' = IF key_combo \in DOMAIN toggleStates
                               THEN DictDel(toggleStates, key_combo)
                               ELSE toggleStates
       ELSE UNCHANGED regVars
    /\ UNCHANGED regFrame

\* set_toggle_state(shortcut, state)
set_toggle_state(str, b) ==
    LET key_combo == parse_shortcut(str) IN
    /\ toggleStates' = IF key_combo \in DOMAIN toggleStates
                       THEN DictSet(toggleStates, key_combo, b)
                       ELSE toggleStates
    /\ UNCHANGED <<shortcuts, regFrame>>

NextReg ==
    \/ \E str \in ShortcutStrs, m \in {HOLD, TOGGLE} : register_shortcut(str, m)
    \/ \E str \in ShortcutStrs : unregister_shortcut(str)
    \/ \E str \in ShortcutStrs, b \in BOOLEAN : set_toggle_state(str, b)

SpecReg == Init /\ [][NextReg]_vars

\* ------------------------------------------------------------- AudioRecorder called directly
\* whossper/audio/recorder.py driven by one caller and the device's callback
\* thread.  _audio_callback runs under self._lock, and _cleanup_stream takes
\* the same lock to close the stream, after which no callback arrives;
\* start_recording, stop_recording and cancel_recording read and write
\* _is_recording and _frames without the lock, so callbacks come between
\* their statements while the stream is open.

\* what the recorder's methods leave alone
bufFrame == <<state, observed, lock, pc, cbret, counters, wk, files,
              adapterCallers, enhancerOn, listenerVars, concVars, regVars>>

\* the caller enters start_recording, stop_recording or cancel_recording
BufCall(op) ==
    /\ bpc = "ready"
    /\ op = "start" => session < MaxSessions
    /\ bpc' = "b_" \o op
    /\ bret' = None
    /\ quiet' = IF op = "start" THEN FALSE ELSE quiet
    /\ UNCHANGED <<recorderVars, stream, rec, delivered, bufFrame>>

\* variant: the frame list is reset before the already-recording test
RecStartBegin_ResetsFirst ==
    /\ bpc = "b_start"
    /\ frames' = <<>>
    /\ IF recording
       THEN /\ bpc' = "ready"
            /\ bret' = "false"
            /\ UNCHANGED stream
       ELSE \E device \in {"ok", "no_audio", "open_fails"} :
            /\ stream' = (device = "ok")
            /\ bpc' = IF device = "ok" THEN "b_start_flag" ELSE "ready"
            /\ bret' = IF device = "ok" THEN None ELSE "false"
    /\ UNCHANGED <<recording, session, rec, delivered, quiet, bufFrame>>

\* start_recording up to the opened stream (lines 132-149): already
\* recording -> False; PyAudio cannot be initialised -> False; the frame list
\* is reset; the stream is opened, or the open raises -> False
RecStartBegin ==
    /\ bpc = "b_start"
    /\ IF recording
       THEN /\ bpc' = "ready"
            /\ bret' = "false"
            /\ UNCHANGED <<frames, stream>>
       ELSE \E device \in {"ok", "no_audio", "open_fails"} :
            /\ frames' = IF device = "no_audio" THEN frames ELSE <<>>
            /\ stream' = (device = "ok")
            /\ bpc' = IF device = "ok" THEN "b_start_flag" ELSE "ready"
            /\ bret' = IF device = "ok" THEN None ELSE "false"
    /\ UNCHANGED <<recording, session, rec, delivered, quiet, bufFrame>>

\* start_recording lines 151-155: _is_recording = True, return True
RecStartFlag ==
    /\ bpc = "b_start_flag"
    /\ recording' = TRUE
    /\ session' = session + 1
    /\ delivered' = <<>>
    /\ bpc' = "ready"
    /\ bret' = "true"
    /\ UNCHANGED <<frames, stream, rec, quiet, bufFrame>>

\* _audio_callback on the open stream: under the lock, the frame is appended
\* if _is_recording is set and dropped otherwise
DeviceCallback ==
    /\ stream
    /\ Len(delivered) < MaxDelivered
    /\ LET frame == <<session, Len(delivered) + 1>>
       IN  IF recording
           THEN /\ frames' = Append(frames, frame)
                /\ delivered' = Append(delivered, frame)
           ELSE UNCHANGED <<frames, delivered>>
    /\ UNCHANGED <<recording, session, bpc, bret, stream, rec, quiet, bufFrame>>

\* stop_recording lines 174-202: not recording -> None at once; else the
\* duration test (ValueError when too short), the empty test, and
\* _save_audio, which writes the frames held now to a file or fails
RecStopBegin ==
    /\ bpc = "b_stop"
    /\ IF ~recording
       THEN /\ bpc' = "ready"
            /\ bret' = "none"
            /\ UNCHANGED rec
       ELSE /\ bpc' = "b_stop_finally"
            /\ IF TooShort(Len(frames))
               THEN bret' = "ValueError" /\ UNCHANGED rec
               ELSE IF frames = <<>>
               THEN bret' = "none" /\ UNCHANGED rec
               ELSE \E saved \in BOOLEAN :
                    /\ bret' = IF saved THEN "file" ELSE "none"
                    /\ rec' = IF saved THEN frames ELSE rec
    /\ UNCHANGED <<recorderVars, stream, delivered, quiet, bufFrame>>

\* stop_recording's finally (lines 209-211): the stream is closed and
\* _is_recording cleared; the frame list is left as it is
RecStopFinally ==
    /\ bpc = "b_stop_finally"
    /\ stream' = FALSE
    /\ recording' = FALSE
    /\ bpc' = "ready"
    /\ UNCHANGED <<frames, session, bret, rec, delivered, quiet, bufFrame>>

\* cancel_recording line 242: _cleanup_stream()
RecCancelCleanup ==
    /\ bpc = "b_cancel"
    /\ stream' = FALSE
    /\ bpc' = "b_cancel_clear"
    /\ UNCHANGED <<recorderVars, bret, rec, delivered, quiet, bufFrame>>

\* variant: the frames are kept
RecCancelClear_KeepsFrames ==
    /\ bpc = "b_cancel_clear"
    /\ recording' = FALSE
    /\ bpc' = "ready"
    /\ bret' = "done"
    /\ quiet' = TRUE
    /\ UNCHANGED <<frames, session, stream, rec, delivered, bufFrame>>

\* cancel_recording lines 243-244: _is_recording = False; _frames = []
RecCancelClear ==
    /\ bpc = "b_cancel_clear"
    /\ recording' = FALSE
    /\ frames' = <<>>
    /\ bpc' = "ready"
    /\ bret' = "done"
    /\ quiet' = TRUE
    /\ UNCHANGED <<session, stream, rec, delivered, bufFrame>>

NextBuf ==
    \/ \E op \in {"start", "stop", "cancel"} : BufCall(op)
    \/ RecStartBegin \/ RecStartFlag
    \/ RecStopBegin \/ RecStopFinally
    \/ RecCancelCleanup \/ RecCancelClear
    \/ DeviceCallback

SpecBuf == Init /\ [][NextBuf]_vars

\* ------------------------------------------------------------- concurrent start_recording
\* Two threads call AudioRecorder.start_recording on the same recorder.  The
\* method takes no lock (recorder.py lines 126-160): the test of
\* _is_recording, the reset of _frames, the open of the stream and the
\* assignment of _is_recording are separate statements of each thread.

\* what a concurrent caller's step leaves alone
concFrame == <<state, observed, lock, pc, cbret, counters, wk, files,
               adapterCallers, quiet, enhancerOn, listenerVars, bpc, bret,
               rec, regVars>>

\* thread c enters start_recording
ConcCall(c) ==
    /\ cpc[c] = "ready"
    /\ session + Cardinality({d \in Starters : cpc[d] # "ready"}) < MaxSessions
    /\ cpc' = [cpc EXCEPT ![c] = "b_start"]
    /\ cret' = [cret EXCEPT ![c] = None]
    /\ UNCHANGED <<recorderVars, stream, delivered, opened, concFrame>>

\* start_recording up to the opened stream, run by thread c (lines 132-149);
\* a failed open closes whatever self._stream refers to (line 159)
ConcStartBegin(c) ==
    /\ cpc[c] = "b_start"
    /\ IF recording
       THEN /\ cpc' = [cpc EXCEPT ![c] = "ready"]
            /\ cret' = [cret EXCEPT ![c] = "false"]
            /\ UNCHANGED <<frames, stream, opened>>
       ELSE \E device \in {"ok", "no_audio", "open_fails"} :
            /\ frames' = IF device = "no_audio" THEN frames ELSE <<>>
            /\ stream' = IF device = "ok" THEN TRUE
                         ELSE IF device = "open_fails" THEN FALSE
                         ELSE stream
            /\ opened' = IF device = "ok" THEN opened + 1 ELSE opened
            /\ cpc' = [cpc EXCEPT ![c] =
                          IF device = "ok" THEN "b_start_flag" ELSE "ready"]
            /\ cret' = [cret EXCEPT ![c] =
                          IF device = "ok" THEN None ELSE "false"]
    /\ UNCHANGED <<recording, session, delivered, concFrame>>

\* start_recording lines 151-155 run by thread c
ConcStartFlag(c) ==
    /\ cpc[c] = "b_start_flag"
    /\ recording' = TRUE
    /\ session' = session + 1
    /\ delivered' = <<>>
    /\ cpc' = [cpc EXCEPT ![c] = "ready"]
    /\ cret' = [cret EXCEPT ![c] = "true"]
    /\ UNCHANGED <<frames, stream, opened, concFrame>>

NextConc ==
    \/ \E c \in Starters : ConcCall(c)
    \/ \E c \in Starters : ConcStartBegin(c)
    \/ \E c \in Starters : ConcStartFlag(c)
    \/ DeviceCallback

SpecConc == Init /\ [][NextConc]_vars

\* ------------------------------------------------------------- properties
TypeOK ==
    /\ state \in DictationState
    /\ observed \in DictationState
    /\ lock \in Threads \cup {Free}
    /\ recording \in BOOLEAN
    /\ Len(frames) <= MaxFrames
    /\ session \in 0..MaxSessions
    /\ spawned \in 0..MaxSessions
    /\ files \subseteq Workers
    /\ quiet \in BOOLEAN

IsPrefix(s, t) == Len(s) <= Len(t) /\ s = SubSeq(t, 1, Len(s))

Edges ==
    {<<IDLE, RECORDING>>, <<RECORDING, TRANSCRIBING>>, <<RECORDING, IDLE>>,
     <<TRANSCRIBING, ENHANCING>>, <<TRANSCRIBING, INSERTING>>,
     <<TRANSCRIBING, IDLE>>, <<TRANSCRIBING, ERROR>>,
     <<ENHANCING, INSERTING>>, <<INSERTING, IDLE>>, <<ERROR, IDLE>>}

\* C1: every pair of consecutive states delivered to on_state_change is an
\* edge of the state graph.
C1_ValidPath == [][observed' # observed => <<observed, observed'>> \in Edges]_vars

\* C2: at most one processing thread is alive at any time.
C2_AtMostOneWorker == Cardinality({w \in Workers : Alive(w)}) <= 1

CallerMoves == pc'[Caller] # pc[Caller]

\* C3: a start_recording that reads a state other than IDLE, and a
\* stop_recording that reads a state other than RECORDING, return False in
\* that very step and change neither the engine state, the recorder, the lock
\* nor anything a callback would record.
C3_RejectedCallsHaveNoEffect ==
    [][/\ (pc[Caller] = "start_check" /\ state # IDLE /\ CallerMoves)
            => /\ pc'[Caller] = "start_ret_false"
               /\ UNCHANGED <<state, observed, lock, cbret, recorderVars,
                              counters, wk, files, adapterCallers>>
       /\ (pc[Caller] = "stop_check" /\ state # RECORDING /\ CallerMoves)
            => /\ pc'[Caller] = "stop_ret_false"
               /\ UNCHANGED <<state, observed, lock, cbret, recorderVars,
                              counters, wk, files, adapterCallers>>]_vars

\* a second start_recording, made while RECORDING with frames captured, has
\* returned False and the state is still RECORDING
C3_Witness ==
    /\ pc[Caller] = "start_ret_false"
    /\ state = RECORDING
    /\ recording
    /\ frames # <<>>

C5_NoLockAcrossCallbacks ==
    \A t \in Threads :
        /\ pc[t] = "callback" => lock # t
        /\ pc[t] # "deadlocked"

\* a thread waits for ever for the lock it holds itself
C5_SelfDeadlock == \E t \in Threads : pc[t] = "deadlocked" /\ lock = t

Busy == state \in {TRANSCRIBING, ENHANCING, INSERTING, ERROR}

\* C6: from TRANSCRIBING, ENHANCING, INSERTING and ERROR the engine reaches
\* IDLE without a new API call being needed.
C6_SelfHeals == Busy ~> (state = IDLE)

\* the engine shows ERROR while a processing thread serves the back-off
C6_Witness == state = ERROR /\ \E w \in Workers : pc[w] = "herr_sleep"

\* the text the pipeline ends up with
FinalText(w) == IF wk[w].enhOut = "ok" THEN Enhance("um hello") ELSE "um hello"

Finished(w) == pc[w] = "w_exit"

\* C7: a processing thread whose transcription was not empty has, when it
\* ends, called Inserter once with the final text, then on_transcription once
\* with the same text, last set the state to IDLE, and entered ENHANCING
\* only with an enhancer configured.
C7_TextIsInsertedAndReported ==
    \A w \in Workers :
        (Finished(w) /\ wk[w].txOut = "text")
            => /\ wk[w].inserted = <<FinalText(w)>>
               /\ wk[w].notified = <<FinalText(w)>>
               /\ wk[w].sets[Len(wk[w].sets)] = IDLE
               /\ (\E i \in 1..Len(wk[w].sets) : wk[w].sets[i] = ENHANCING)
                     => enhancerOn

\* C8: a processing thread whose enhancer raised has, when it ends, called
\* Inserter once with the transcribed text, gone ENHANCING -> INSERTING ->
\* IDLE, and never set ERROR nor called on_error.
C8_EnhancerFailureIsNotFatal ==
    \A w \in Workers :
        (Finished(w) /\ wk[w].enhOut = "raise")
            => /\ wk[w].inserted = <<"um hello">>
               /\ wk[w].sets = <<TRANSCRIBING, ENHANCING, INSERTING, IDLE>>
               /\ wk[w].errors = 0

\* C9: a processing thread that got an empty text never calls the enhancer,
\* the inserter or on_transcription and never reports an error, and its
\* _set_state(IDLE) finds the engine in TRANSCRIBING (or in IDLE already) and
\* leaves it in IDLE.
C9_EmptyTextIsDropped ==
    /\ [](\A w \in Workers :
            wk[w].txOut = "empty"
                => /\ wk[w].enhCalls = 0
                   /\ wk[w].inserted = <<>>
                   /\ wk[w].notified = <<>>
                   /\ wk[w].errors = 0
                   /\ IsPrefix(wk[w].sets, <<TRANSCRIBING, IDLE, IDLE>>))
    /\ [][\A w \in Workers :
            (pc[w] = "w_empty_idle" /\ pc'[w] # pc[w])
                => (state \in {TRANSCRIBING, IDLE} /\ state' = IDLE)]_vars

C9_Witness == \E w \in Workers : Finished(w) /\ wk[w].txOut = "empty"

\* C10: a processing thread whose transcriber raised calls on_error exactly
\* once and never the inserter nor on_transcription, and its two _set_state
\* calls in _handle_error take the engine from TRANSCRIBING to ERROR and
\* from ERROR to IDLE.
C10_TranscriberFailure ==
    /\ [](\A w \in Workers :
            wk[w].txOut = "fail"
                => /\ wk[w].inserted = <<>>
                   /\ wk[w].notified = <<>>
                   /\ wk[w].errors <= 1
                   /\ Finished(w) => wk[w].errors = 1)
    /\ [][\A w \in Workers :
            wk[w].txOut = "fail"
                => /\ (pc[w] = "herr_set" /\ pc'[w] # pc[w])
                      => (state = TRANSCRIBING /\ state' = ERROR)
                   /\ (pc[w] = "herr_sleep" /\ pc'[w] # pc[w])
                      => (state = ERROR /\ state' = IDLE)]_vars

C10_Witness == \E w \in Workers : Finished(w) /\ wk[w].txOut = "fail"

\* the values thread w passed to _set_state, as a set
SetsOf(w) == {wk[w].sets[i] : i \in 1..Len(wk[w].sets)}

\* C11: a processing thread whose insertion failed (the inserter returned
\* False or raised) has, when it ends, never set ERROR nor called on_error,
\* has called on_transcription exactly once with the text it tried to insert,
\* and has gone from INSERTING to IDLE.
C11_InsertFailureIsNotFatal ==
    \A w \in Workers :
        (Finished(w) /\ wk[w].insOut \in {"false", "raise"})
            => /\ ERROR \notin SetsOf(w)
               /\ wk[w].errors = 0
               /\ Len(wk[w].inserted) = 1
               /\ wk[w].notified = wk[w].inserted
               /\ SubSeq(wk[w].sets, Len(wk[w].sets) - 1, Len(wk[w].sets))
                     = <<INSERTING, IDLE>>

\* the inserter raised and the thread has served _handle_error
C11_Witness ==
    \E w \in Workers :
        Finished(w) /\ wk[w].insOut = "raise" /\ wk[w].errors = 1

\* C12: the state becomes ERROR only in the _handle_error of a processing
\* thread whose transcriber failed; the caller never runs _handle_error, so
\* a start_recording whose device cannot be opened changes no state.
C12_ErrorOnlyFromTranscriber ==
    /\ [][(state # ERROR /\ state' = ERROR)
            => \E w \in Workers :
                  /\ pc[w] = "herr_set"
                  /\ pc'[w] # pc[w]
                  /\ wk[w].txOut = "fail"]_vars
    /\ [](pc[Caller] \notin {"herr_set", "herr_onerror", "herr_sleep"})

\* the caller's failed start_recording has put the engine in ERROR
C12_Witness ==
    /\ state = ERROR
    /\ pc[Caller] = "herr_onerror"
    /\ ~recording
    /\ \A w \in Workers : ~Alive(w)

C14_CancelDiscards ==
    /\ (quiet /\ pc[Caller] # "cancel_set") => state = IDLE
    /\ \A w \in Workers :
          wk[w].discarded => (wk[w].txOut = None /\ wk[w].inserted = <<>>)

\* the cancel has returned, no start was called since, and the text of the
\* cancelled session has been inserted
C14_Witness ==
    /\ quiet
    /\ pc[Caller] = "ready"
    /\ \E w \in Workers :
          wk[w].discarded /\ wk[w].txOut = "text" /\ wk[w].inserted # <<>>

\* C15: a stop_recording made in RECORDING on an active recording shorter
\* than the minimum starts no thread and goes on to _set_state(IDLE), which
\* finds the engine in RECORDING (or in IDLE already), so in no state of the
\* pipeline and not in ERROR, and leaves it in IDLE before False is returned.
C15_TooShortGoesIdle ==
    /\ [][(/\ pc[Caller] = "stop_check"
              /\ state = RECORDING
              /\ recording
              /\ TooShort(Len(frames))
              /\ CallerMoves)
            => /\ pc'[Caller] = "stop_idle"
               /\ spawned' = spawned
               /\ \A w \in Workers : pc'[w] = pc[w]]_vars
    /\ [][(/\ pc[Caller] = "stop_idle"
              /\ TooShort(Len(frames))
              /\ CallerMoves)
            => /\ state \in {RECORDING, IDLE}
               /\ state' = IDLE]_vars

\* a too-short stop_recording has returned False with the engine IDLE
C15_Witness ==
    /\ pc[Caller] = "stop_ret_false"
    /\ frames # <<>>
    /\ TooShort(Len(frames))
    /\ state = IDLE

StopRefusedLocs == {"stop_idle", "stop_ret_false"}

\* C17: a stop_recording refused as too short leaves every frame in the
\* recorder and the recorder inactive, and the frames stay until the call
\* has returned.
C17_TooShortKeepsFrames ==
    /\ [][(/\ pc[Caller] = "stop_check"
              /\ state = RECORDING
              /\ recording
              /\ TooShort(Len(frames))
              /\ CallerMoves)
            => (frames' = frames /\ recording' = FALSE)]_vars
    /\ [][(\/ pc[Caller] \in StopRefusedLocs
            \/ (pc[Caller] \in {"callback", "cb_except"}
                  /\ cbret[Caller] = "stop_ret_false"))
            => (recording' = recording /\ (~recording => frames' = frames))]_vars

\* a stop_recording was refused and the recorder is inactive and empty
C17_Witness ==
    /\ pc[Caller] = "stop_idle"
    /\ state = RECORDING
    /\ ~recording
    /\ frames = <<>>
    /\ session > 0

\* C18: when on_state_change raises, _set_state catches the exception: the
\* state it has just assigned stays, the lock is released, and the method
\* that called _set_state goes on exactly where it goes on after a callback
\* that returned (so it returns the same value and makes the same later
\* transitions).
C18_CallbackErrorSwallowed ==
    [][\A t \in Threads :
          (pc[t] = "cb_except" /\ pc'[t] # pc[t])
              => /\ pc'[t] = cbret[t]
                 /\ state' = state
                 /\ observed' = observed
                 /\ lock' = Free]_vars

\* the callback told of RECORDING has raised inside start_recording, and the
\* state is RECORDING
C18_Witness ==
    /\ pc[Caller] = "cb_except"
    /\ cbret[Caller] = "start_ret_true"
    /\ state = RECORDING
    /\ recording

\* C19: the thread that calls start_recording and stop_recording (the key
\* event thread, whose shortcut callbacks run inside _on_press/_on_release)
\* never serves the sleep of _handle_error and never calls the transcriber,
\* the enhancer or the inserter.
C19_KeyThreadNeverWaits ==
    /\ pc[Caller] # "herr_sleep"
    /\ Caller \notin adapterCallers

\* the calling thread is in time.sleep(0.5) with the engine in ERROR
C19_Witness ==
    /\ pc[Caller] = "herr_sleep"
    /\ state = ERROR
    /\ lock = Free

\* C20: for a shortcut in toggle mode, every key event calls the callback
\* exactly when it takes the chord from not fully held to fully held, and
\* flips the toggle state exactly when it calls the callback.
C20_ToggleFiresOncePerChord ==
    [][mode = TOGGLE
        => /\ (activations' = activations + 1) = (rises' = rises + 1)
           /\ (activations' = activations) = (rises' = rises)
           /\ (toggleState' # toggleState) = (activations' # activations)]_vars

\* left ctrl and shift are down, the right ctrl went down and up meanwhile,
\* and the chord was formed once but the callback was called twice
C20_Witness ==
    /\ mode = TOGGLE
    /\ held = {"ctrl_l", "shift_l"}
    /\ rises = 1
    /\ activations = 2

\* C21: for a shortcut in hold mode with an on_release, every key event calls
\* the callback exactly when it makes the chord fully held, calls on_release
\* exactly when it ends the chord being fully held (the first of its keys is
\* let go), and calls nothing otherwise (the remaining keys are let go).
C21_HoldFiresOncePerChord ==
    [][mode = HOLD
        => /\ (activations' = activations + 1)
                = (~ChordHeld(held) /\ ChordHeld(held'))
           /\ (activations' = activations)
                = ~(~ChordHeld(held) /\ ChordHeld(held'))
           /\ (releases' = releases + 1)
                = (ChordHeld(held) /\ ~ChordHeld(held'))
           /\ (releases' = releases)
                = ~(ChordHeld(held) /\ ~ChordHeld(held'))]_vars

\* hold mode: left ctrl and shift are still down and on_release has been
\* called, after the right ctrl went down and up
C21_Witness ==
    /\ mode = HOLD
    /\ held = {"ctrl_l", "shift_l"}
    /\ activations = 1
    /\ releases = 1
    /\ ~active

\* the step handles a key-down or a key-up of key k
KeyEventOf(k) == running /\ lastEvent' \in {<<"press", k>>, <<"release", k>>}

\* C22: while a shortcut is active, a key-down or key-up of a key outside its
\* chord leaves it active and calls none of its callbacks, and the key-up of
\* any key of its chord makes it inactive (both shortcuts).
C22_SubsetMatching ==
    [][\A k \in PhysKeys :
        /\ (active /\ KeyEventOf(k))
             => IF Normalize(k) \notin Chord
                THEN /\ active'
                     /\ activations' = activations
                     /\ releases' = releases
                     /\ toggleState' = toggleState
                ELSE lastEvent' = <<"release", k>> => ~active'
        /\ (active2 /\ KeyEventOf(k))
             => IF Normalize(k) \notin Chord2
                THEN /\ active2'
                     /\ activations2' = activations2
                     /\ releases2' = releases2
                ELSE lastEvent' = <<"release", k>> => ~active2']_vars

\* both shortcuts are active and the key "a", in neither chord, went down last
C22_Witness ==
    /\ active
    /\ active2
    /\ lastEvent = <<"press", "a">>
    /\ "a" \in pressedKeys
    /\ activations = 1
    /\ releases = 0

\* the generic modifiers that are down in some variant
HeldGeneric(h) == {c \in {"ctrl", "shift"} : h \cap Variants(c) # {}}

\* _pressed_keys agrees with the keyboard
Clean == pressedKeys = held \cup HeldGeneric(held)

\* no modifier is down in two variants at once
OneVariantEach(h) == \A c \in {"ctrl", "shift"} : Cardinality(h \cap Variants(c)) <= 1

\* the step handles a key-down, or the key-up of a key that is down
HonestKeyEvent ==
    /\ running
    /\ \E k \in PhysKeys :
        \/ lastEvent' = <<"press", k>>
        \/ lastEvent' = <<"release", k>> /\ k \in held

C24_CallbackErrorIsolated ==
    [][(running /\ (raised' # {} \/ raised # {}))
        => /\ (lastEvent'[1] = "press" /\ IsShortcutPressed(pressedKeys') /\ ~active)
                => (active' /\ activations' = activations + 1)
           /\ (lastEvent'[1] = "press" /\ IsShortcut2Pressed(pressedKeys') /\ ~active2)
                => (active2' /\ activations2' = activations2 + 1)
           /\ (lastEvent'[1] = "release" /\ active /\ ~IsShortcutPressed(pressedKeys'))
                => (~active' /\ (mode = HOLD => releases' = releases + 1))
           /\ (lastEvent'[1] = "release" /\ active2 /\ ~IsShortcut2Pressed(pressedKeys'))
                => (~active2' /\ releases2' = releases2 + 1)
           /\ klock' = Free
           /\ running']_vars

\* shift went down with ctrl held: the callback of the first shortcut raised
\* and the callback of the second was called in the same event
C24_Witness ==
    /\ raised = {1}
    /\ lastEvent = <<"press", "shift_l">>
    /\ held = {"ctrl_l", "shift_l"}
    /\ active
    /\ active2
    /\ activations = 1
    /\ activations2 = 1

\* C25: the listener's lock is not held while a callback runs, so a callback
\* that reads the toggle state or registers a shortcut returns: the key
\* thread is never left waiting for the lock it holds.
C25_CallbackMayQueryListener == klock # KeyThread

\* a toggle shortcut's callback called get_toggle_state: the toggle state was
\* flipped before the call, and the key thread waits for its own lock
C25_Witness ==
    /\ klock = KeyThread
    /\ mode = TOGGLE
    /\ active
    /\ toggleState
    /\ activations = 1

\* C26: between key events, and after stop(), start() and register_shortcut,
\* a shortcut in hold mode is flagged active exactly when its chord is a
\* subset of _pressed_keys (both shortcuts).
C26_ActiveIffChordPressed ==
    /\ mode = HOLD => (active = IsShortcutPressed(pressedKeys))
    /\ active2 = IsShortcut2Pressed(pressedKeys)

\* the listener was stopped while the hold shortcut was active: the pressed
\* set is empty and the flag is still set
C26_Witness ==
    /\ mode = HOLD
    /\ ~running
    /\ pressedKeys = {}
    /\ active
    /\ activations = 1
    /\ releases = 0

\* the direct caller takes a step
BufMoves == bpc' # bpc

\* C27: start_recording on a recorder that is recording returns False and
\* leaves _is_recording and the frames as they are; a start_recording that
\* fails (no PyAudio, or the open raises) returns False with the recorder not
\* recording; one that succeeds returns True with the recorder recording and
\* the frame list empty.
C27_StartOutcomes ==
    /\ [][(bpc = "b_start" /\ BufMoves)
            => IF recording
               THEN /\ bpc' = "ready"
                    /\ bret' = "false"
                    /\ recording'
                    /\ frames' = frames
               ELSE \/ bpc' = "ready" /\ bret' = "false" /\ ~recording'
                    \/ bpc' = "b_start_flag" /\ ~recording' /\ frames' = <<>>]_vars
    /\ [][(bpc = "b_start_flag" /\ BufMoves)
            => /\ bpc' = "ready"
               /\ bret' = "true"
               /\ recording'
               /\ frames' = <<>>]_vars
    /\ [][(BufMoves /\ bpc' = "ready" /\ bret' = "true")
            => bpc = "b_start_flag"]_vars

\* a second start_recording was refused: the recorder still records and has
\* kept its frames
C27_Witness ==
    /\ bpc = "ready"
    /\ bret = "false"
    /\ recording
    /\ stream
    /\ Len(frames) = 2

\* C28: the file a successful stop_recording returns holds exactly the
\* frames the device delivered while the recorder was recording since the
\* last start_recording, in order and once each; and a callback that comes
\* while the recorder is not recording changes nothing.
C28_RecordingIsWhatWasDelivered ==
    /\ []((bpc = "ready" /\ bret = "file") => rec = delivered)
    /\ [][(~BufMoves /\ frames' # frames)
            => /\ recording
               /\ frames' = Append(frames, <<session, Len(delivered) + 1>>)]_vars

\* stop_recording has returned a file of two frames, and a third frame was
\* delivered and taken while the recorder was still recording
C28_Witness ==
    /\ bpc = "ready"
    /\ bret = "file"
    /\ ~recording
    /\ Len(rec) = 2
    /\ Len(delivered) = 3
    /\ frames = delivered

\* C29: after a successful stop_recording the recorder is not recording and
\* holds no frame, and nothing done later to the recorder (start, callback,
\* cancel) changes the recording that was handed out.
C29_StopDrainsBuffer ==
    /\ []((bpc = "ready" /\ bret = "file") => (~recording /\ frames = <<>>))
    /\ [][rec' # rec => (bpc = "b_stop" /\ bpc' = "b_stop_finally")]_vars

\* stop_recording has returned a file and the recorder still holds the frames
C29_Witness ==
    /\ bpc = "ready"
    /\ bret = "file"
    /\ ~recording
    /\ ~stream
    /\ frames = rec
    /\ Len(frames) = 2

\* every frame the recorder holds was delivered in the current session
FramesAreCurrent == \A i \in 1..Len(frames) : frames[i][1] = session

\* C30: once cancel_recording has returned, and until start_recording is
\* called again, the recorder is not recording and holds no frame, whenever
\* the device's callbacks came; the frames a later session collects and saves
\* are all of that session; and cancel_recording returns normally whether
\* or not the recorder was recording.
C30_CancelLeavesNothing ==
    /\ [](quiet => (~recording /\ frames = <<>> /\ ~stream))
    /\ []FramesAreCurrent
    /\ [][(bpc = "b_stop" /\ bpc' = "b_stop_finally" /\ rec' # rec)
            => \A i \in 1..Len(rec') : rec'[i][1] = session]_vars
    /\ [][(bpc = "b_cancel_clear" /\ BufMoves)
            => (bpc' = "ready" /\ bret' = "done")]_vars

\* a recording that had collected two frames was cancelled: the call has
\* returned and the recorder is empty and not recording
C30_Witness ==
    /\ quiet
    /\ bpc = "ready"
    /\ bret = "done"
    /\ ~recording
    /\ frames = <<>>
    /\ Len(delivered) = 2

\* C31: when two threads call start_recording on a recorder that is not
\* recording, at most one stream is opened and at most one call returns True.
C31_OneStartWins ==
    /\ opened <= 1
    /\ Cardinality({c \in Starters : cret[c] = "true"}) <= 1

\* both calls have returned True and two streams were opened
C31_Witness ==
    /\ \A c \in Starters : cpc[c] = "ready" /\ cret[c] = "true"
    /\ opened = 2
    /\ recording

\* C32: driven by the toggle shortcut with a working audio device, an
\* activation that finds the engine IDLE starts a recording, and the next
\* activation, which finds it RECORDING, stops the recorder and starts the
\* processing thread (unless the recording is shorter than the minimum).
C32_ToggleAlternates ==
    /\ [][(pc[Caller] = "ready" /\ CallerMoves)
            => \/ state = IDLE /\ pc'[Caller] = "start_check"
               \/ state = RECORDING /\ pc'[Caller] = "stop_check"]_vars
    /\ [][(pc[Caller] = "start_check" /\ CallerMoves)
            => \/ pc'[Caller] = "start_set" /\ recording'
               \/ pc'[Caller] = "herr_set" /\ ~recording /\ ~recording']_vars
    /\ [][(pc[Caller] = "stop_check" /\ CallerMoves)
            => \/ pc'[Caller] = "stop_ret_true" /\ recording /\ ~recording'
               \/ /\ pc'[Caller] = "stop_idle"
                  /\ recording
                  /\ TooShort(Len(frames))]_vars

\* a third activation found the state still RECORDING after the second had
\* started the processing thread: it called stop_recording, which found the
\* recorder stopped and goes on to set IDLE under the running thread
C32_Witness ==
    /\ pc[Caller] = "stop_idle"
    /\ state = RECORDING
    /\ ~recording
    /\ stopTrue = 1
    /\ \E w \in Workers : pc[w] = "w_start"

\* C33: when DictationController.stop() has found the engine recording and
\* cancelled, then on its return the state is IDLE, the recorder is not
\* recording, the key listener is stopped, and no processing thread holds
\* the audio that was discarded.
C33_ServiceStopCancels ==
    pc[Caller] = "svc_ret_cancelled"
        => /\ state = IDLE
           /\ ~recording
           /\ ~running
           /\ \A w \in Workers : ~wk[w].discarded

\* stop() returns after an accepted cancel while a processing thread works
\* on the audio of the session it cancelled
C33_Witness ==
    /\ pc[Caller] = "svc_ret_cancelled"
    /\ ~running
    /\ \E w \in Workers : Alive(w) /\ wk[w].discarded /\ wk[w].audio = session

\* C34: whenever no start_recording, stop_recording or cancel_recording call
\* is in progress, the recorder is recording only if the state is RECORDING.
C34_RecorderActiveOnlyWhenRecording ==
    (pc[Caller] = "ready" /\ recording) => state = RECORDING

\* between calls, the recorder captures a session while a processing thread
\* of an earlier session is alive and the state is not RECORDING
C34_Witness ==
    /\ pc[Caller] = "ready"
    /\ recording
    /\ state # RECORDING
    /\ \E w \in Workers : Alive(w) /\ wk[w].audio < session

\* a step in which thread t enters on_state_change
Invoked(t) == pc[t] # "callback" /\ pc'[t] = "callback"

\* C35: on_state_change is invoked exactly when the state field changes, in
\* the same step and with the new state: every change of the state is
\* delivered, an invocation carries a state different from the one delivered
\* before it, and the last state delivered is the current state.
C35_CallbackOncePerChange ==
    /\ [][ /\ (state' # state) => \E t \in Threads : Invoked(t)
           /\ (\E t \in Threads : Invoked(t))
                => /\ state' # state
                   /\ observed' = state'
                   /\ observed' # observed ]_vars
    /\ [](observed = state)

\* a processing thread is in the callback for the second state it has set,
\* and the state delivered is the current one
C35_Witness ==
    \E w \in Workers :
        /\ pc[w] = "callback"
        /\ lock = w
        /\ observed = state
        /\ state # IDLE
        /\ Len(wk[w].sets) >= 2

\* each generic modifier is in _pressed_keys exactly when one of its variants
\* is down
ModifiersAgree ==
    \A m \in {"ctrl", "shift"} :
        (m \in pressedKeys) = (held \cap Variants(m) # {})

\* C36: a key-down, or the key-up of a key that is down, keeps each generic
\* modifier in _pressed_keys exactly when one of its variants (left, right or
\* generic) is down, and leaves the shortcut ctrl+shift active when its chord
\* is still down.
C36_ModifierVariantsCounted ==
    [][(HonestKeyEvent /\ ModifiersAgree)
        => /\ ModifiersAgree'
           /\ (active /\ ChordHeld(held')) => active']_vars

\* the left ctrl is still down with shift, the right ctrl was let go, and
\* ctrl is no longer in _pressed_keys: the shortcut is inactive
C36_Witness ==
    /\ running
    /\ lastEvent = <<"release", "ctrl_r">>
    /\ held = {"ctrl_l", "shift_l"}
    /\ "ctrl_l" \in pressedKeys
    /\ "ctrl" \notin pressedKeys
    /\ ~active
    /\ activations = 1

\* C37: after any sequence of register_shortcut and unregister_shortcut calls
\* a chord has an entry in _toggle_states exactly when it is registered in
\* toggle mode; _shortcuts holds one registration per chord, however the
\* chord was written.
C37_ToggleEntryIffToggleRegistered ==
    /\ DOMAIN toggleStates
         = {c \in DOMAIN shortcuts : shortcuts[c].mode = TOGGLE}
    /\ \A str \in ShortcutStrs :
         Cardinality({c \in DOMAIN shortcuts : c = parse_shortcut(str)}) <= 1

\* ctrl+shift was registered in toggle mode and registered again in hold
\* mode: it is a hold shortcut with a toggle state
C37_Witness ==
    /\ {"ctrl", "shift"} \in DOMAIN shortcuts
    /\ shortcuts[{"ctrl", "shift"}].mode = HOLD
    /\ {"ctrl", "shift"} \in DOMAIN toggleStates

\* C38: for a shortcut in hold mode, over any sequence of key-down and key-up
\* events, the callback and on_release are called in strict alternation
\* starting with the callback: no event calls both, each call is one call,
\* on_release is called only when the callback was called last, and the
\* callback only when it was not (both shortcuts).
C38_HoldCallbacksAlternate ==
    /\ [][mode = HOLD
            => /\ activations' \in {activations, activations + 1}
               /\ releases' \in {releases, releases + 1}
               /\ ~(activations' # activations /\ releases' # releases)
               /\ (activations' # activations) => activations = releases
               /\ (releases' # releases) => activations = releases + 1]_vars
    /\ [][/\ activations2' \in {activations2, activations2 + 1}
          /\ releases2' \in {releases2, releases2 + 1}
          /\ ~(activations2' # activations2 /\ releases2' # releases2)
          /\ (activations2' # activations2) => activations2 = releases2
          /\ (releases2' # releases2) => activations2 = releases2 + 1]_vars

\* hold mode: the callback was called, on_release was called, and a key-down
\* has called the callback again
C38_Witness ==
    /\ mode = HOLD
    /\ lastEvent[1] = "press"
    /\ activations = 2
    /\ releases = 1
    /\ active

====
